---- MODULE Spec2Model ----
(***************************************************************************)
(* Order creation and webhook-driven fulfilment of the e-commerce backend. *)
(*                                                                         *)
(* The database is one record, db, holding the committed rows.  A request  *)
(* is a process that runs one HTTP handler, one database round trip per    *)
(* step.  A statement sent on a transaction client (client.query between   *)
(* BEGIN and COMMIT) is appended to the request's write log tx[p] and is   *)
(* applied to db by COMMIT or dropped by ROLLBACK; a statement sent on the *)
(* pool (db.query) is applied at once.  Reads on the pool see committed    *)
(* rows only (PostgreSQL read committed).  An UPDATE or DELETE locks its   *)
(* row until the transaction ends; a second writer of the row waits.       *)
(***************************************************************************)
EXTENDS Integers, Sequences, FiniteSets, TLC

VARIABLES db, db0, tx, req, pc, loc, res, nextId, now

\* db0 keeps the rows the run started from; no action changes it.
vars == <<db, db0, tx, req, pc, loc, res, nextId, now>>

\* ------------------------------------------------------------------ bounds
\* Concurrent requests of the general specification.
NProcs == 2
\* Concurrent createOrder requests of the scarce-stock race.
NRace == 3
\* Requests of the order-lifecycle specification: the first creates the
\* order, the others then act on it concurrently.
NLife == 3
\* Initial stock_quantity of each stock row of the general specification.
MaxStock == 1

Procs == 1..NProcs
RaceProcs == 1..NRace
LifeProcs == 1..NLife

\* ----------------------------------------------------------------- catalogue
Products == {"p1"}
Variants == {"v1"}
VariantProduct == [v \in Variants |-> "p1"]
Coupons == {"c1"}
Carts == {"k1"}
Users == {"u1", "u2"}
None == "none"

Line(p, v, q) == [product |-> p, variant |-> v, quantity |-> q]

\* The stock row an order line or order item reads and writes.
StockRow(line) ==
  IF line.variant # None THEN <<"variant", line.variant>>
                         ELSE <<"product", line.product>>

\* ------------------------------------------------------------- statements
\* One SQL statement that writes, as data: who sends it decides whether it is
\* applied at once (pool) or logged until COMMIT (transaction client).
InsOrder(id, row) == [st |-> "insOrder", id |-> id, row |-> row]
InsItem(id, line) == [st |-> "insItem", id |-> id, line |-> line]
UpdProduct(p, dStock, dSales) ==
  [st |-> "updProduct", product |-> p, dStock |-> dStock, dSales |-> dSales]
UpdVariant(v, dStock) == [st |-> "updVariant", variant |-> v, dStock |-> dStock]
InsMove(line, type, qty, ref) ==
  [st |-> "insMove", product |-> line.product, variant |-> line.variant,
   type |-> type, quantity |-> qty, reference |-> ref]
UpdCoupon(c) == [st |-> "updCoupon", coupon |-> c]
InsUsage(c, u, id) == [st |-> "insUsage", coupon |-> c, user |-> u, order |-> id]
InsHist(id, from, to) == [st |-> "insHist", order |-> id, from |-> from, to |-> to]
DelCart(k) == [st |-> "delCart", cart |-> k]
UpdOrder(id, set) == [st |-> "updOrder", id |-> id, set |-> set]

\* UPDATE <stock table> SET stock_quantity = stock_quantity + d WHERE id = row
UpdStock(line, d) ==
  IF line.variant # None THEN UpdVariant(line.variant, d)
                         ELSE UpdProduct(line.product, d, 0)

\* The row a statement locks until its transaction ends (None: an INSERT).
LockOf(w) ==
  CASE w.st = "updProduct" -> <<"product", w.product>>
    [] w.st = "updVariant" -> <<"variant", w.variant>>
    [] w.st = "updCoupon"  -> <<"coupon", w.coupon>>
    [] w.st = "delCart"    -> <<"cart", w.cart>>
    [] w.st = "updOrder"   -> <<"order", w.id>>
    [] OTHER               -> <<None, None>>

\* UPDATE orders SET ... : the columns named in `set` are overwritten; the
\* payment reference is written through COALESCE(stripe_payment_intent_id, $1).
SetOrder(row, set) ==
  [f \in DOMAIN row |->
     IF f \in DOMAIN set
       THEN IF f = "intent" /\ row.intent # None THEN row.intent ELSE set[f]
       ELSE row[f]]

\* The effect of one statement on the committed rows.
Apply(d, w) ==
  CASE w.st = "insOrder" ->
         [d EXCEPT !.orders = [i \in DOMAIN d.orders \cup {w.id} |->
                                 IF i = w.id THEN w.row ELSE d.orders[i]]]
    [] w.st = "insItem" ->
         [d EXCEPT !.items = Append(@, [order |-> w.id, product |-> w.line.product,
                                         variant |-> w.line.variant,
                                         quantity |-> w.line.quantity])]
    [] w.st = "updProduct" ->
         IF w.product \in DOMAIN d.products
           THEN [d EXCEPT !.products[w.product].stock = @ + w.dStock,
                          !.products[w.product].sales = @ + w.dSales]
           ELSE d
    [] w.st = "updVariant" ->
         IF w.variant \in DOMAIN d.variants
           THEN [d EXCEPT !.variants[w.variant].stock = @ + w.dStock]
           ELSE d
    [] w.st = "insMove" ->
         [d EXCEPT !.moves = Append(@, [product |-> w.product, variant |-> w.variant,
                                         type |-> w.type, quantity |-> w.quantity,
                                         reference |-> w.reference])]
    [] w.st = "updCoupon" ->
         [d EXCEPT !.coupons[w.coupon].usage_count = @ + 1]
    [] w.st = "insUsage" ->
         [d EXCEPT !.usage = Append(@, [coupon |-> w.coupon, user |-> w.user,
                                         order |-> w.order])]
    [] w.st = "insHist" ->
         [d EXCEPT !.history = Append(@, [order |-> w.order, from |-> w.from,
                                           to |-> w.to])]
    [] w.st = "delCart" ->
         [d EXCEPT !.cart[w.cart] = <<>>]
    [] w.st = "updOrder" ->
         IF w.id \in DOMAIN d.orders
           THEN [d EXCEPT !.orders[w.id] = SetOrder(@, w.set)]
           ELSE d

RECURSIVE ApplyAll(_, _)
ApplyAll(d, log) ==
  IF log = <<>> THEN d ELSE ApplyAll(Apply(d, Head(log)), Tail(log))

\* ------------------------------------------------------------------ locks
Locks(p) == {LockOf(tx[p][k]) : k \in DOMAIN tx[p]} \ {<<None, None>>}

\* Another transaction holds the row: the statement waits.
LockedByOther(p, row) == \E q \in DOMAIN tx : q # p /\ row \in Locks(q)

\* ------------------------------------------------------------ initial rows
\* Amounts are integers: prices and stored amounts (NUMERIC(10, 2)) in cents,
\* the floating-point intermediates of calculateOrderTotals in 1/Cent of a
\* cent, which holds every percentage of a price and its 20% tax exactly.
Cent == 500

\* A coupon's discount rule: discount_type, discount_value (percent, or
\* cents), max_discount_amount and min_purchase_amount (cents, 0 for NULL).
Rule(type, value, max, min) ==
  [discount_type |-> type, discount_value |-> value,
   max_discount_amount |-> max, min_purchase_amount |-> min]

\* A cart_items row: the line and its price_snapshot.
CartRow(line, price) ==
  [product |-> line.product, variant |-> line.variant,
   quantity |-> line.quantity, price_snapshot |-> price]

\* products p1 (active, tracked, no backorder, the given stock and price) with
\* variant v1; coupon c1 with one use left and the given rule; cart k1 of
\* user u1 holding one unit of p1.
Rows(ps, vs, price, active, rule) ==
  [products |-> [p \in Products |->
                   [stock |-> ps, sales |-> 0, status |-> "active", price |-> price,
                    track_inventory |-> TRUE, allow_backorder |-> FALSE]],
   variants |-> [v \in Variants |->
                   [stock |-> vs, product |-> VariantProduct[v],
                    price_adjustment |-> 0]],
   coupons  |-> [c \in Coupons |->
                   [is_active |-> active, usage_limit |-> 1, usage_count |-> 0,
                    rule |-> rule]],
   cart     |-> [k \in Carts |-> <<CartRow(Line("p1", None, 1), price)>>],
   orders   |-> [i \in {} |-> None],
   items    |-> <<>>,
   moves    |-> <<>>,
   usage    |-> <<>>,
   history  |-> <<>>]

\* The catalogue the request specifications start from: p1 at 10.00, c1
\* worth 10 percent.
Catalogue(ps, vs) == Rows(ps, vs, 1000, TRUE, Rule("percentage", 10, 0, 0))

NoLoc == [i |-> 0, coupon |-> None, number |-> <<None, 0>>, oid |-> 0,
          snap |-> <<>>, from |-> None, subtotal |-> 0, discount |-> 0]
NoRes == [code |-> 0, err |-> None]

\* ------------------------------------------------------------ control flow
Goto(p, label) == pc' = [pc EXCEPT ![p] = label]

\* A rejected promise inside the handler's try block: control moves to the
\* catch block, whose first statement is ROLLBACK.
Throw(p, e) ==
  /\ pc' = [pc EXCEPT ![p] = "rollback"]
  /\ res' = [res EXCEPT ![p].err = e]

\* The handler answers and returns: its locals go out of scope.
Respond(p, label, code, e) ==
  /\ pc' = [pc EXCEPT ![p] = label]
  /\ res' = [res EXCEPT ![p] = [code |-> code, err |-> e]]
  /\ loc' = [loc EXCEPT ![p] = NoLoc]

\* client.query(sql) on the transaction client: logged until COMMIT.
OnClient(p, w) == tx' = [tx EXCEPT ![p] = Append(@, w)]

\* db.query(sql) on the pool: its own transaction, committed at once.
OnPool(w) == db' = Apply(db, w)

\* =========================================================== createOrder
\* router.post('/') of the orders routes.

\* userId = req.user?.id || null.  The route is mounted with no auth
\* middleware, so req.user is undefined on every request it serves.
ReqUser(p) == None

\* guestEmail = validated.billingAddress.email || ... || req.body.email || null
GuestEmail(p) == req[p].email

\* The row of the product SELECT of calculateOrderTotals, or no row.
ProductFound(d, line) ==
  /\ line.product \in DOMAIN d.products
  /\ d.products[line.product].status = "active"
  /\ line.variant # None =>
       /\ line.variant \in DOMAIN d.variants
       /\ d.variants[line.variant].product = line.product

AvailableStock(d, line) ==
  IF line.variant # None THEN d.variants[line.variant].stock
                         ELSE d.products[line.product].stock

\* SELECT * FROM coupons WHERE UPPER(code) = UPPER($1) AND is_active ...
CouponFound(d, code) == code \in DOMAIN d.coupons /\ d.coupons[code].is_active

\* coupon.usage_limit && coupon.usage_count >= coupon.usage_limit
CouponExhausted(c) == c.usage_limit # 0 /\ c.usage_count >= c.usage_limit

\* coupon.min_purchase_amount && subtotal < coupon.min_purchase_amount
BelowMinimum(c, subtotal) ==
  c.rule.min_purchase_amount # 0 /\ subtotal < c.rule.min_purchase_amount * Cent

\* price = product.price + (price_adjustment || 0), in cents.
UnitPrice(d, line) ==
  IF line.variant # None
    THEN d.products[line.product].price + d.variants[line.variant].price_adjustment
    ELSE d.products[line.product].price

Min(a, b) == IF a <= b THEN a ELSE b

\* discountAmount of calculateOrderTotals for a subtotal.
Discount(c, subtotal) ==
  CASE c.rule.discount_type = "percentage" ->
         LET d == (subtotal * c.rule.discount_value) \div 100 IN
           IF c.rule.max_discount_amount # 0
             THEN Min(d, c.rule.max_discount_amount * Cent)
             ELSE d
    [] c.rule.discount_type = "fixed_amount" -> c.rule.discount_value * Cent
    [] OTHER -> 0

\* Number.prototype.toFixed(2): the nearest amount in cents, a half going
\* away from zero.
ToFixed2(x) ==
  IF x >= 0 THEN (2 * x + Cent) \div (2 * Cent)
            ELSE -((2 * (-x) + Cent) \div (2 * Cent))

\* shippingCost = subtotal >= 50 ? 0 : 5.99
ShippingCost(subtotal) == IF subtotal >= 5000 * Cent THEN 0 ELSE 599 * Cent

\* taxAmount = (subtotal - discountAmount + shippingCost) * 0.20
TaxAmount(subtotal, discount) ==
  ((subtotal - discount + ShippingCost(subtotal)) * 20) \div 100

\* The amounts calculateOrderTotals returns, each through toFixed(2).
Totals(subtotal, discount) ==
  [subtotal |-> ToFixed2(subtotal),
   discount |-> ToFixed2(discount),
   shipping |-> ToFixed2(ShippingCost(subtotal)),
   tax      |-> ToFixed2(TaxAmount(subtotal, discount)),
   total    |-> ToFixed2(subtotal - discount + ShippingCost(subtotal)
                         + TaxAmount(subtotal, discount))]

\* generateOrderNumber: COUNT(*) of today's committed orders, plus one.
GenerateOrderNumber(d) == <<"ORD", Cardinality(DOMAIN d.orders) + 1>>

NumberTaken(d, n) == \E i \in DOMAIN d.orders : d.orders[i].number = n

\* Another open transaction has inserted the same order_number: the unique
\* index makes this INSERT wait for that transaction to end.
NumberPending(p, n) ==
  \E q \in DOMAIN tx : q # p /\
     \E k \in DOMAIN tx[q] : tx[q][k].st = "insOrder" /\ tx[q][k].row.number = n

NewOrder(p) ==
  [number |-> loc[p].number, user |-> ReqUser(p), status |-> "pending",
   payment |-> "pending", paid_at |-> 0, intent |-> None,
   coupon |-> req[p].coupon, guest_email |-> GuestEmail(p),
   amounts |-> Totals(loc[p].subtotal, loc[p].discount)]

CurLine(p) == req[p].items[loc[p].i]

IsOp(p, op) == req[p].op = op

\* The request arrives: createOrderSchema.parse (items.min(1)), then BEGIN.  A
\* ZodError goes to the catch block, which answers 400.
CO_Begin(p, r) ==
  /\ pc[p] = "idle" /\ r.op = "createOrder"
  /\ req' = [req EXCEPT ![p] = r]
  /\ now' = now + 1
  /\ IF r.items = <<>>
       THEN Respond(p, "failed", 400, "validation")
       ELSE /\ Goto(p, "price")
            /\ loc' = [loc EXCEPT ![p].i = 1]
            /\ UNCHANGED res
  /\ UNCHANGED <<db, db0, tx, nextId>>

\* calculateOrderTotals, one item of the loop: the product SELECT on the pool
\* and the stock comparison.
CO_Price(p) ==
  /\ IsOp(p, "createOrder") /\ pc[p] = "price"
  /\ LET line == CurLine(p) IN
       IF ~ProductFound(db, line)
         THEN Throw(p, "unavailable") /\ UNCHANGED loc
       ELSE IF AvailableStock(db, line) < line.quantity
         THEN Throw(p, "stock") /\ UNCHANGED loc
       ELSE /\ loc' = [loc EXCEPT ![p].i = @ + 1,
                                  ![p].subtotal =
                                     @ + UnitPrice(db, line) * line.quantity * Cent]
            /\ Goto(p, IF loc[p].i < Len(req[p].items) THEN "price"
                       ELSE IF req[p].coupon # None THEN "coupon"
                       ELSE "number")
            /\ UNCHANGED res
  /\ UNCHANGED <<db, db0, tx, req, nextId, now>>

\* calculateOrderTotals, the coupon SELECT on the pool and its limit check.
CO_Coupon(p) ==
  /\ IsOp(p, "createOrder") /\ pc[p] = "coupon"
  /\ IF ~CouponFound(db, req[p].coupon)
       THEN Goto(p, "number") /\ UNCHANGED <<loc, res>>
     ELSE IF CouponExhausted(db.coupons[req[p].coupon])
       THEN Throw(p, "coupon") /\ UNCHANGED loc
     ELSE IF BelowMinimum(db.coupons[req[p].coupon], loc[p].subtotal)
       THEN Throw(p, "minimum") /\ UNCHANGED loc
     ELSE /\ loc' = [loc EXCEPT ![p].coupon = req[p].coupon,
                                ![p].discount =
                                   Discount(db.coupons[req[p].coupon], loc[p].subtotal)]
          /\ Goto(p, "number")
          /\ UNCHANGED res
  /\ UNCHANGED <<db, db0, tx, req, nextId, now>>

CO_Number(p) ==
  /\ IsOp(p, "createOrder") /\ pc[p] = "number"
  /\ loc' = [loc EXCEPT ![p].number = GenerateOrderNumber(db)]
  /\ Goto(p, "insert")
  /\ UNCHANGED <<db, db0, tx, req, res, nextId, now>>

\* INSERT INTO orders ... RETURNING *, against UNIQUE(order_number).
CO_InsertOrder(p) ==
  /\ IsOp(p, "createOrder") /\ pc[p] = "insert"
  /\ ~NumberPending(p, loc[p].number)
  /\ IF NumberTaken(db, loc[p].number)
       THEN Throw(p, "duplicate") /\ UNCHANGED <<tx, loc, nextId>>
       ELSE /\ OnClient(p, InsOrder(nextId, NewOrder(p)))
            /\ loc' = [loc EXCEPT ![p].oid = nextId, ![p].i = 1]
            /\ nextId' = nextId + 1
            /\ Goto(p, "item")
            /\ UNCHANGED res
  /\ UNCHANGED <<db, db0, req, now>>

CO_InsertItem(p) ==
  /\ IsOp(p, "createOrder") /\ pc[p] = "item"
  /\ OnClient(p, InsItem(loc[p].oid, CurLine(p)))
  /\ Goto(p, "stock")
  /\ UNCHANGED <<db, db0, req, loc, res, nextId, now>>

\* The stock UPDATE sent through the pool instead of the transaction client.
CO_UpdStock_OnPool(p) ==
  /\ IsOp(p, "createOrder") /\ pc[p] = "stock"
  /\ ~LockedByOther(p, StockRow(CurLine(p)))
  /\ OnPool(UpdStock(CurLine(p), -CurLine(p).quantity))
  /\ Goto(p, "move")
  /\ UNCHANGED <<db0, tx, req, loc, res, nextId, now>>

\* UPDATE ... SET stock_quantity = stock_quantity - $1 WHERE id = $2
CO_UpdStock(p) ==
  /\ IsOp(p, "createOrder") /\ pc[p] = "stock"
  /\ ~LockedByOther(p, StockRow(CurLine(p)))
  /\ OnClient(p, UpdStock(CurLine(p), -CurLine(p).quantity))
  /\ Goto(p, "move")
  /\ UNCHANGED <<db, db0, req, loc, res, nextId, now>>

CO_InsMove(p) ==
  /\ IsOp(p, "createOrder") /\ pc[p] = "move"
  /\ OnClient(p, InsMove(CurLine(p), "sale", -CurLine(p).quantity, loc[p].number))
  /\ IF loc[p].i < Len(req[p].items)
       THEN loc' = [loc EXCEPT ![p].i = @ + 1] /\ Goto(p, "item")
       ELSE loc' = [loc EXCEPT ![p].i = 1] /\ Goto(p, "sales")
  /\ UNCHANGED <<db, db0, req, res, nextId, now>>

\* UPDATE products SET sales_count = sales_count + $1 WHERE id = $2
CO_UpdSales(p) ==
  /\ IsOp(p, "createOrder") /\ pc[p] = "sales"
  /\ ~LockedByOther(p, <<"product", CurLine(p).product>>)
  /\ OnClient(p, UpdProduct(CurLine(p).product, 0, CurLine(p).quantity))
  /\ IF loc[p].i < Len(req[p].items)
       THEN loc' = [loc EXCEPT ![p].i = @ + 1] /\ Goto(p, "sales")
       ELSE /\ UNCHANGED loc
            /\ Goto(p, IF loc[p].coupon # None THEN "couponUse" ELSE "hist")
  /\ UNCHANGED <<db, db0, req, res, nextId, now>>

\* UPDATE coupons SET usage_count = usage_count + 1 WHERE id = $1
CO_UpdCoupon(p) ==
  /\ IsOp(p, "createOrder") /\ pc[p] = "couponUse"
  /\ ~LockedByOther(p, <<"coupon", loc[p].coupon>>)
  /\ OnClient(p, UpdCoupon(loc[p].coupon))
  /\ Goto(p, "usage")
  /\ UNCHANGED <<db, db0, req, loc, res, nextId, now>>

CO_InsUsage_OnPool(p) ==
  /\ IsOp(p, "createOrder") /\ pc[p] = "usage"
  /\ OnPool(InsUsage(loc[p].coupon, ReqUser(p), loc[p].oid))
  /\ Goto(p, "hist")
  /\ UNCHANGED <<db0, tx, req, loc, res, nextId, now>>

CO_InsUsage(p) ==
  /\ IsOp(p, "createOrder") /\ pc[p] = "usage"
  /\ OnClient(p, InsUsage(loc[p].coupon, ReqUser(p), loc[p].oid))
  /\ Goto(p, "hist")
  /\ UNCHANGED <<db, db0, req, loc, res, nextId, now>>

CO_InsHist(p) ==
  /\ IsOp(p, "createOrder") /\ pc[p] = "hist"
  /\ OnClient(p, InsHist(loc[p].oid, None, "pending"))
  /\ Goto(p, IF req[p].cart # None THEN "cart" ELSE "commit")
  /\ UNCHANGED <<db, db0, req, loc, res, nextId, now>>

\* DELETE FROM cart_items WHERE cart_id = $1
CO_ClearCart(p) ==
  /\ IsOp(p, "createOrder") /\ pc[p] = "cart"
  /\ ~LockedByOther(p, <<"cart", req[p].cart>>)
  /\ OnClient(p, DelCart(req[p].cart))
  /\ Goto(p, "commit")
  /\ UNCHANGED <<db, db0, req, loc, res, nextId, now>>

\* COMMIT, then res.status(201).
CO_Commit(p) ==
  /\ IsOp(p, "createOrder") /\ pc[p] = "commit"
  /\ db' = ApplyAll(db, tx[p])
  /\ tx' = [tx EXCEPT ![p] = <<>>]
  /\ Respond(p, "done", 201, None)
  /\ UNCHANGED <<db0, req, nextId, now>>

\* catch: ROLLBACK, then next(error); the global error handler answers
\* err.status || 500.
CO_Rollback(p) ==
  /\ IsOp(p, "createOrder") /\ pc[p] = "rollback"
  /\ tx' = [tx EXCEPT ![p] = <<>>]
  /\ Respond(p, "failed", 500, res[p].err)
  /\ UNCHANGED <<db, db0, req, nextId, now>>

\* A statement of the transaction is rejected by the database (connection
\* loss, statement timeout, deadlock detected, constraint violation): the
\* await throws and control moves to the catch block.
CO_Fault(p) ==
  /\ IsOp(p, "createOrder")
  /\ pc[p] \in {"price", "coupon", "number", "insert", "item", "stock", "move",
                "sales", "couponUse", "usage", "hist", "cart", "commit"}
  /\ Throw(p, "db")
  /\ UNCHANGED <<db, db0, tx, req, loc, nextId, now>>

\* ================================================== POST /stripe/webhook
\* A delivery carries the outcome of stripe.webhooks.constructEvent (sig) and
\* the event: its type and the session's metadata and payment_intent.
Event(type, order, cart, user, intent, amount) ==
  [type |-> type, order |-> order, cart |-> cart, user |-> user, intent |-> intent,
   amount_total |-> amount]

Completed == "checkout.session.completed"

\* The route without the constructEvent try/catch: the body is trusted.
WH_Verify_Unsigned(p, r) ==
  /\ pc[p] = "idle" /\ r.op = "webhook"
  /\ req' = [req EXCEPT ![p] = r]
  /\ now' = now + 1
  /\ IF r.event.type # Completed
       THEN Respond(p, "done", 200, None)
       ELSE /\ Goto(p, IF r.event.order # 0 THEN "wh_paid" ELSE "wh_cart")
            /\ UNCHANGED <<res, loc>>
  /\ UNCHANGED <<db, db0, tx, nextId>>

\* The switch with payment_intent.succeeded falling into the
\* checkout.session.completed case.
WH_Verify_Fallthrough(p, r) ==
  /\ pc[p] = "idle" /\ r.op = "webhook"
  /\ req' = [req EXCEPT ![p] = r]
  /\ now' = now + 1
  /\ IF ~r.sig
       THEN Respond(p, "failed", 400, "signature")
     ELSE IF r.event.type \notin {Completed, "payment_intent.succeeded"}
       THEN Respond(p, "done", 200, None)
     ELSE /\ Goto(p, IF r.event.order # 0 THEN "wh_paid" ELSE "wh_cart")
          /\ UNCHANGED <<res, loc>>
  /\ UNCHANGED <<db, db0, tx, nextId>>

\* constructEvent, then the switch on event.type.
WH_Verify(p, r) ==
  /\ pc[p] = "idle" /\ r.op = "webhook"
  /\ req' = [req EXCEPT ![p] = r]
  /\ now' = now + 1
  /\ IF ~r.sig
       THEN Respond(p, "failed", 400, "signature")
     ELSE IF r.event.type # Completed
       THEN Respond(p, "done", 200, None)
     ELSE /\ Goto(p, IF r.event.order # 0 THEN "wh_paid" ELSE "wh_cart")
          /\ UNCHANGED <<res, loc>>
  /\ UNCHANGED <<db, db0, tx, nextId>>

\* handleCheckoutCompleted, metadata.order_id set: one UPDATE on the pool.
MarkPaid(e, t) ==
  UpdOrder(e.order, [payment |-> "paid", status |-> "processing", paid_at |-> t,
                     intent |-> e.intent])

WH_MarkPaid(p) ==
  /\ IsOp(p, "webhook") /\ pc[p] = "wh_paid"
  /\ ~LockedByOther(p, <<"order", req[p].event.order>>)
  /\ OnPool(MarkPaid(req[p].event, now))
  /\ Respond(p, "done", 200, None)
  /\ UNCHANGED <<db0, tx, req, nextId, now>>

\* handleCheckoutCompleted, cart shape: SELECT the cart's items on the pool.
CartItems(d, k) == IF k \in DOMAIN d.cart THEN d.cart[k] ELSE <<>>

WH_ReadCart(p) ==
  /\ IsOp(p, "webhook") /\ pc[p] = "wh_cart"
  /\ LET rows == CartItems(db, req[p].event.cart) IN
       IF rows = <<>>
         THEN Respond(p, "done", 200, None)
         ELSE /\ loc' = [loc EXCEPT ![p].snap = rows]
              /\ Goto(p, "wh_insert")
              /\ UNCHANGED res
  /\ UNCHANGED <<db, db0, tx, req, nextId, now>>

RECURSIVE CartSubtotal(_)
\* cartItems.rows.reduce((sum, item) => sum + price_snapshot * quantity, 0)
CartSubtotal(rows) ==
  IF rows = <<>> THEN 0
  ELSE Head(rows).price_snapshot * Head(rows).quantity + CartSubtotal(Tail(rows))

\* The order row the cart shape inserts; its number is
\* ORD-<Date.now()>-<random>, distinct per call.  total_amount is
\* session.amount_total / 100; the columns it does not name keep DEFAULT 0.
PaidOrder(e, rows, id, t) ==
  [number |-> <<"WH", id>>, user |-> e.user, status |-> "processing",
   payment |-> "paid", paid_at |-> t, intent |-> e.intent, coupon |-> None,
   guest_email |-> None,
   amounts |-> [subtotal |-> CartSubtotal(rows), discount |-> 0, shipping |-> 0,
                tax |-> 0, total |-> e.amount_total]]

WH_InsertOrder(p) ==
  /\ IsOp(p, "webhook") /\ pc[p] = "wh_insert"
  /\ OnPool(InsOrder(nextId, PaidOrder(req[p].event, loc[p].snap, nextId, now)))
  /\ loc' = [loc EXCEPT ![p].oid = nextId, ![p].i = 1]
  /\ nextId' = nextId + 1
  /\ Goto(p, "wh_item")
  /\ UNCHANGED <<db0, tx, req, res, now>>

CurRow(p) == loc[p].snap[loc[p].i]

WH_InsertItem(p) ==
  /\ IsOp(p, "webhook") /\ pc[p] = "wh_item"
  /\ OnPool(InsItem(loc[p].oid, CurRow(p)))
  /\ Goto(p, "wh_stock")
  /\ UNCHANGED <<db0, tx, req, loc, res, nextId, now>>

\* UPDATE product_variants SET stock_quantity = stock_quantity - $1, or
\* UPDATE products SET stock_quantity = stock_quantity - $1,
\*                     sales_count = sales_count + $1
SessionStock(row) ==
  IF row.variant # None THEN UpdVariant(row.variant, -row.quantity)
                        ELSE UpdProduct(row.product, -row.quantity, row.quantity)

WH_UpdStock(p) ==
  /\ IsOp(p, "webhook") /\ pc[p] = "wh_stock"
  /\ ~LockedByOther(p, StockRow(CurRow(p)))
  /\ OnPool(SessionStock(CurRow(p)))
  /\ IF loc[p].i < Len(loc[p].snap)
       THEN loc' = [loc EXCEPT ![p].i = @ + 1] /\ Goto(p, "wh_item")
       ELSE UNCHANGED loc /\ Goto(p, "wh_clear")
  /\ UNCHANGED <<db0, tx, req, res, nextId, now>>

WH_ClearCart(p) ==
  /\ IsOp(p, "webhook") /\ pc[p] = "wh_clear"
  /\ ~LockedByOther(p, <<"cart", req[p].event.cart>>)
  /\ OnPool(DelCart(req[p].event.cart))
  /\ Respond(p, "done", 200, None)
  /\ UNCHANGED <<db0, tx, req, nextId, now>>

\* A query of handleCheckoutCompleted rejects: the route's catch answers 500.
\* Nothing is rolled back: every statement before it was committed on the pool.
WH_Fault(p) ==
  /\ IsOp(p, "webhook")
  /\ pc[p] \in {"wh_paid", "wh_cart", "wh_insert", "wh_item", "wh_stock", "wh_clear"}
  /\ Respond(p, "failed", 500, "db")
  /\ UNCHANGED <<db, db0, tx, req, nextId, now>>

\* ============================================ POST /ecommerce/orders/:id/cancel
\* requireAuth has set req.userId; the request names the order id.

\* SELECT * FROM orders WHERE id = $1 AND user_id = $2
OwnOrder_AnyUser(d, id, user) == id \in DOMAIN d.orders

OwnOrder(d, id, user) == id \in DOMAIN d.orders /\ d.orders[id].user = user

NotCancellable == {"shipped", "delivered", "cancelled"}

RECURSIVE SelectItems(_, _)
\* SELECT * FROM order_items WHERE order_id = $1
SelectItems(items, id) ==
  IF items = <<>> THEN <<>>
  ELSE IF Head(items).order = id
         THEN <<Head(items)>> \o SelectItems(Tail(items), id)
         ELSE SelectItems(Tail(items), id)

CA_Begin(p, r) ==
  /\ pc[p] = "idle" /\ r.op = "cancel"
  /\ req' = [req EXCEPT ![p] = r]
  /\ now' = now + 1
  /\ Goto(p, "ca_read")
  /\ UNCHANGED <<db, db0, tx, loc, res, nextId>>

\* The handler without its status check.
CA_Read_AnyStatus(p) ==
  /\ IsOp(p, "cancel") /\ pc[p] = "ca_read"
  /\ IF ~OwnOrder(db, req[p].order, req[p].user)
       THEN Respond(p, "failed", 404, "notfound")
       ELSE /\ loc' = [loc EXCEPT ![p].from = db.orders[req[p].order].status,
                                  ![p].number = db.orders[req[p].order].number]
            /\ Goto(p, "ca_items")
            /\ UNCHANGED res
  /\ UNCHANGED <<db, db0, tx, req, nextId, now>>

\* The ownership SELECT and the status check; either early return sends
\* ROLLBACK first, with nothing written yet.
CA_Read(p) ==
  /\ IsOp(p, "cancel") /\ pc[p] = "ca_read"
  /\ IF ~OwnOrder(db, req[p].order, req[p].user)
       THEN Respond(p, "failed", 404, "notfound")
     ELSE IF db.orders[req[p].order].status \in NotCancellable
       THEN Respond(p, "failed", 400, "notcancellable")
     ELSE /\ loc' = [loc EXCEPT ![p].from = db.orders[req[p].order].status,
                                ![p].number = db.orders[req[p].order].number]
          /\ Goto(p, "ca_items")
          /\ UNCHANGED res
  /\ UNCHANGED <<db, db0, tx, req, nextId, now>>

CA_Items(p) ==
  /\ IsOp(p, "cancel") /\ pc[p] = "ca_items"
  /\ LET rows == SelectItems(db.items, req[p].order) IN
       /\ loc' = [loc EXCEPT ![p].snap = rows, ![p].i = 1]
       /\ Goto(p, IF rows = <<>> THEN "ca_order" ELSE "ca_stock")
  /\ UNCHANGED <<db, db0, tx, req, res, nextId, now>>

\* UPDATE ... SET stock_quantity = stock_quantity + $1 WHERE id = $2
CA_UpdStock(p) ==
  /\ IsOp(p, "cancel") /\ pc[p] = "ca_stock"
  /\ ~LockedByOther(p, StockRow(CurRow(p)))
  /\ OnClient(p, UpdStock(CurRow(p), CurRow(p).quantity))
  /\ Goto(p, "ca_move")
  /\ UNCHANGED <<db, db0, req, loc, res, nextId, now>>

CA_InsMove(p) ==
  /\ IsOp(p, "cancel") /\ pc[p] = "ca_move"
  /\ OnClient(p, InsMove(CurRow(p), "return", CurRow(p).quantity, loc[p].number))
  /\ IF loc[p].i < Len(loc[p].snap)
       THEN loc' = [loc EXCEPT ![p].i = @ + 1] /\ Goto(p, "ca_stock")
       ELSE UNCHANGED loc /\ Goto(p, "ca_order")
  /\ UNCHANGED <<db, db0, req, res, nextId, now>>

\* UPDATE orders SET status = 'cancelled', cancelled_at = NOW() WHERE id = $2
CA_UpdOrder(p) ==
  /\ IsOp(p, "cancel") /\ pc[p] = "ca_order"
  /\ ~LockedByOther(p, <<"order", req[p].order>>)
  /\ OnClient(p, UpdOrder(req[p].order, [status |-> "cancelled"]))
  /\ Goto(p, "ca_hist")
  /\ UNCHANGED <<db, db0, req, loc, res, nextId, now>>

CA_InsHist(p) ==
  /\ IsOp(p, "cancel") /\ pc[p] = "ca_hist"
  /\ OnClient(p, InsHist(req[p].order, loc[p].from, "cancelled"))
  /\ Goto(p, "ca_commit")
  /\ UNCHANGED <<db, db0, req, loc, res, nextId, now>>

CA_Commit(p) ==
  /\ IsOp(p, "cancel") /\ pc[p] = "ca_commit"
  /\ db' = ApplyAll(db, tx[p])
  /\ tx' = [tx EXCEPT ![p] = <<>>]
  /\ Respond(p, "done", 200, None)
  /\ UNCHANGED <<db0, req, nextId, now>>

CA_Fault(p) ==
  /\ IsOp(p, "cancel")
  /\ pc[p] \in {"ca_read", "ca_items", "ca_stock", "ca_move", "ca_order",
                "ca_hist", "ca_commit"}
  /\ Throw(p, "db")
  /\ UNCHANGED <<db, db0, tx, req, loc, nextId, now>>

\* catch: ROLLBACK, then next(error).
CA_Rollback(p) ==
  /\ IsOp(p, "cancel") /\ pc[p] = "rollback"
  /\ tx' = [tx EXCEPT ![p] = <<>>]
  /\ Respond(p, "failed", 500, res[p].err)
  /\ UNCHANGED <<db, db0, req, nextId, now>>

\* ================================================ POST /admin/inventory/adjust
\* requireAdmin; body { productId, variantId, quantity, type }.
AD_Begin(p, r) ==
  /\ pc[p] = "idle" /\ r.op = "adjust"
  /\ req' = [req EXCEPT ![p] = r]
  /\ now' = now + 1
  /\ IF r.line.product = None \/ r.line.quantity = 0 \/ r.type = None
       THEN Respond(p, "failed", 400, "required")
       ELSE Goto(p, "ad_stock") /\ UNCHANGED <<res, loc>>
  /\ UNCHANGED <<db, db0, tx, nextId>>

\* UPDATE ... SET stock_quantity = stock_quantity + $1 WHERE id = $2 (pool)
AD_UpdStock(p) ==
  /\ IsOp(p, "adjust") /\ pc[p] = "ad_stock"
  /\ ~LockedByOther(p, StockRow(req[p].line))
  /\ OnPool(UpdStock(req[p].line, req[p].line.quantity))
  /\ Goto(p, "ad_move")
  /\ UNCHANGED <<db0, tx, req, loc, res, nextId, now>>

AD_InsMove(p) ==
  /\ IsOp(p, "adjust") /\ pc[p] = "ad_move"
  /\ OnPool(InsMove(req[p].line, req[p].type, req[p].line.quantity, None))
  /\ Respond(p, "done", 200, None)
  /\ UNCHANGED <<db0, tx, req, nextId, now>>

AD_Fault(p) ==
  /\ IsOp(p, "adjust")
  /\ pc[p] \in {"ad_stock", "ad_move"}
  /\ Respond(p, "failed", 500, "db")
  /\ UNCHANGED <<db, db0, tx, req, nextId, now>>

\* ================================== PATCH /ecommerce/orders/:id/status
\* requireAuth, requireAdmin; body { status, comment? }.  No transaction:
\* every query goes through the pool.

\* updateStatusSchema: z.enum of the five statuses.
Statuses == {"pending", "processing", "shipped", "delivered", "cancelled"}

\* updateStatusSchema.parse; a ZodError is answered 400 by the catch block.
PA_Begin(p, r) ==
  /\ pc[p] = "idle" /\ r.op = "patch"
  /\ req' = [req EXCEPT ![p] = r]
  /\ now' = now + 1
  /\ IF r.status \notin Statuses
       THEN Respond(p, "failed", 400, "invalid")
       ELSE Goto(p, "pa_read") /\ UNCHANGED <<res, loc>>
  /\ UNCHANGED <<db, db0, tx, nextId>>

\* SELECT * FROM orders WHERE id = $1; oldStatus = order.status.
PA_Read(p) ==
  /\ IsOp(p, "patch") /\ pc[p] = "pa_read"
  /\ IF req[p].order \notin DOMAIN db.orders
       THEN Respond(p, "failed", 404, "notfound")
       ELSE /\ loc' = [loc EXCEPT ![p].from = db.orders[req[p].order].status]
            /\ Goto(p, "pa_update")
            /\ UNCHANGED res
  /\ UNCHANGED <<db, db0, tx, req, nextId, now>>

\* UPDATE orders SET status = $1, ... WHERE id = $2
PA_Update(p) ==
  /\ IsOp(p, "patch") /\ pc[p] = "pa_update"
  /\ ~LockedByOther(p, <<"order", req[p].order>>)
  /\ OnPool(UpdOrder(req[p].order, [status |-> req[p].status]))
  /\ Goto(p, "pa_hist")
  /\ UNCHANGED <<db0, tx, req, loc, res, nextId, now>>

\* INSERT INTO order_status_history (order_id, from_status, to_status, ...),
\* then res.json.
PA_InsHist(p) ==
  /\ IsOp(p, "patch") /\ pc[p] = "pa_hist"
  /\ OnPool(InsHist(req[p].order, loc[p].from, req[p].status))
  /\ Respond(p, "done", 200, None)
  /\ UNCHANGED <<db0, tx, req, nextId, now>>

\* A query rejects: next(error), nothing is rolled back.
PA_Fault(p) ==
  /\ IsOp(p, "patch")
  /\ pc[p] \in {"pa_read", "pa_update", "pa_hist"}
  /\ Respond(p, "failed", 500, "db")
  /\ UNCHANGED <<db, db0, tx, req, nextId, now>>

\* ====================================================== specifications
NoReq == [op |-> None]

\* A createOrder body; its billing address carries an email unless the
\* request is made Anonymous.
CreateOrderReq(items, coupon, cart) ==
  [op |-> "createOrder", items |-> items, coupon |-> coupon, cart |-> cart,
   email |-> "guest@mail"]
Anonymous(r) == [r EXCEPT !.email = None]
WebhookReq(sig, event) == [op |-> "webhook", sig |-> sig, event |-> event]
CancelReq(order, user) == [op |-> "cancel", order |-> order, user |-> user]
AdjustReq(line, type) == [op |-> "adjust", line |-> line, type |-> type]
PatchReq(order, status) == [op |-> "patch", order |-> order, status |-> status]

Start(P, d) ==
  /\ db = d
  /\ db0 = d
  /\ req = [p \in P |-> NoReq]
  /\ tx = [p \in P |-> <<>>]
  /\ pc = [p \in P |-> "idle"]
  /\ loc = [p \in P |-> NoLoc]
  /\ res = [p \in P |-> NoRes]
  /\ nextId = 1
  /\ now = 0

L1 == Line("p1", None, 1)
LV == Line("p1", "v1", 1)
L2 == Line("p1", None, 2)

\* The session of cart k1 of user u1, and the session made for order 1 by
\* create-checkout-from-order.
CartEvent == Event(Completed, 0, "k1", "u1", "pi_cart", 1000)
OrderEvent == Event(Completed, 1, None, None, "pi_order", 1000)
OtherEvents ==
  {Event(t, 1, "k1", "u1", "pi_other", 1000) :
     t \in {"payment_intent.succeeded", "payment_intent.payment_failed",
            "customer.created"}}

OrderMenu ==
  {CreateOrderReq(<<L1>>, None, None), CreateOrderReq(<<L1, L1>>, None, None),
   CreateOrderReq(<<LV>>, "c1", None), CreateOrderReq(<<L1, LV>>, "c1", "k1")}
HookMenu ==
  {WebhookReq(sig, e) : sig \in BOOLEAN, e \in {CartEvent, OrderEvent} \cup OtherEvents}
CancelMenu == {CancelReq(1, u) : u \in Users}
PatchMenu == {PatchReq(1, st) : st \in Statuses \cup {"refunded"}}
AdjustMenu ==
  {AdjustReq(Line("p1", v, q), "adjustment") : v \in {None, "v1"}, q \in {-1, 0, 1}}

\* ----------------------------------------------------------------- Spec
\* NProcs concurrent requests of any kind on the fresh catalogue.
Init == Start(Procs, Catalogue(MaxStock, MaxStock))

Next ==
  \E p \in Procs :
    \/ \E r \in OrderMenu : CO_Begin(p, r)
    \/ CO_Price(p)
    \/ CO_Coupon(p)
    \/ CO_Number(p)
    \/ CO_InsertOrder(p)
    \/ CO_InsertItem(p)
    \/ CO_UpdStock(p)
    \/ CO_InsMove(p)
    \/ CO_UpdSales(p)
    \/ CO_UpdCoupon(p)
    \/ CO_InsUsage(p)
    \/ CO_InsHist(p)
    \/ CO_ClearCart(p)
    \/ CO_Commit(p)
    \/ CO_Fault(p)
    \/ CO_Rollback(p)
    \/ \E r \in HookMenu : WH_Verify(p, r)
    \/ WH_MarkPaid(p)
    \/ WH_ReadCart(p)
    \/ WH_InsertOrder(p)
    \/ WH_InsertItem(p)
    \/ WH_UpdStock(p)
    \/ WH_ClearCart(p)
    \/ WH_Fault(p)
    \/ \E r \in CancelMenu : CA_Begin(p, r)
    \/ CA_Read(p)
    \/ CA_Items(p)
    \/ CA_UpdStock(p)
    \/ CA_InsMove(p)
    \/ CA_UpdOrder(p)
    \/ CA_InsHist(p)
    \/ CA_Commit(p)
    \/ CA_Fault(p)
    \/ CA_Rollback(p)
    \/ \E r \in AdjustMenu : AD_Begin(p, r)
    \/ AD_UpdStock(p)
    \/ AD_InsMove(p)
    \/ AD_Fault(p)
    \/ \E r \in PatchMenu : PA_Begin(p, r)
    \/ PA_Read(p)
    \/ PA_Update(p)
    \/ PA_InsHist(p)
    \/ PA_Fault(p)

Spec == Init /\ [][Next]_vars

\* ------------------------------------------------------------- SpecRace
\* NRace concurrent createOrder requests, each for one unit of p1, whose
\* stock k is smaller than the number of requests; no statement is rejected
\* by the database for a reason of its own.
RaceMenu == {CreateOrderReq(<<L1>>, None, None)}

InitRace == \E k \in 0..(NRace - 1) : Start(RaceProcs, Catalogue(k, 0))

NextRace ==
  \E p \in RaceProcs :
    \/ \E r \in RaceMenu : CO_Begin(p, r)
    \/ CO_Price(p)
    \/ CO_Number(p)
    \/ CO_InsertOrder(p)
    \/ CO_InsertItem(p)
    \/ CO_UpdStock(p)
    \/ CO_InsMove(p)
    \/ CO_UpdSales(p)
    \/ CO_InsHist(p)
    \/ CO_Commit(p)
    \/ CO_Rollback(p)

SpecRace == InitRace /\ [][NextRace]_vars

\* ----------------------------------------------------------- SpecCreate
\* NProcs concurrent createOrder requests on the fresh catalogue; any
\* statement may be rejected.
NextCreate ==
  \E p \in Procs :
    \/ \E r \in OrderMenu : CO_Begin(p, r)
    \/ CO_Price(p)
    \/ CO_Coupon(p)
    \/ CO_Number(p)
    \/ CO_InsertOrder(p)
    \/ CO_InsertItem(p)
    \/ CO_UpdStock(p)
    \/ CO_InsMove(p)
    \/ CO_UpdSales(p)
    \/ CO_UpdCoupon(p)
    \/ CO_InsUsage(p)
    \/ CO_InsHist(p)
    \/ CO_ClearCart(p)
    \/ CO_Commit(p)
    \/ CO_Fault(p)
    \/ CO_Rollback(p)

SpecCreate == Init /\ [][NextCreate]_vars

\* ------------------------------------------------------------- SpecHook
\* NProcs concurrent webhook deliveries on the fresh catalogue; any query
\* may be rejected.
NextHook ==
  \E p \in Procs :
    \/ \E r \in HookMenu : WH_Verify(p, r)
    \/ WH_MarkPaid(p)
    \/ WH_ReadCart(p)
    \/ WH_InsertOrder(p)
    \/ WH_InsertItem(p)
    \/ WH_UpdStock(p)
    \/ WH_ClearCart(p)
    \/ WH_Fault(p)

SpecHook == Init /\ [][NextHook]_vars

\* ------------------------------------------------------------- SpecLife
\* The life of one order: request 1 creates order 1 (createOrder, or the
\* cart shape of the webhook); once it has ended, the other requests act on
\* the order concurrently: cancellations by the cart's user u1 or by u2,
\* deliveries of the payment event of the order, and admin status changes.
Setup == CHOOSE p \in LifeProcs : \A q \in LifeProcs : p <= q
SetupMenu == {CreateOrderReq(<<L1>>, None, None), WebhookReq(TRUE, CartEvent)}
\* The payment of order 1 is reported failed.
FailedEvent ==
  Event("payment_intent.payment_failed", 1, None, None, "pi_order", 1000)
LifeHooks == {WebhookReq(TRUE, OrderEvent), WebhookReq(TRUE, FailedEvent)}

InitLife == Start(LifeProcs, Catalogue(MaxStock, MaxStock))

NextLife ==
  \/ \E r \in SetupMenu : CO_Begin(Setup, r)
  \/ \E r \in SetupMenu : WH_Verify(Setup, r)
  \/ \E p \in LifeProcs \ {Setup} :
       /\ pc[Setup] \in {"done", "failed"}
       /\ \/ \E r \in CancelMenu : CA_Begin(p, r)
          \/ \E r \in LifeHooks : WH_Verify(p, r)
          \/ \E r \in PatchMenu : PA_Begin(p, r)
  \/ \E p \in LifeProcs :
       \/ CO_Price(p)
       \/ CO_Number(p)
       \/ CO_InsertOrder(p)
       \/ CO_InsertItem(p)
       \/ CO_UpdStock(p)
       \/ CO_InsMove(p)
       \/ CO_UpdSales(p)
       \/ CO_InsHist(p)
       \/ CO_Commit(p)
       \/ WH_MarkPaid(p)
       \/ WH_ReadCart(p)
       \/ WH_InsertOrder(p)
       \/ WH_InsertItem(p)
       \/ WH_UpdStock(p)
       \/ WH_ClearCart(p)
       \/ CA_Read(p)
       \/ CA_Items(p)
       \/ CA_UpdStock(p)
       \/ CA_InsMove(p)
       \/ CA_UpdOrder(p)
       \/ CA_InsHist(p)
       \/ CA_Commit(p)
       \/ PA_Read(p)
       \/ PA_Update(p)
       \/ PA_InsHist(p)

SpecLife == InitLife /\ [][NextLife]_vars

\* ----------------------------------------------------------- SpecTotals
\* One createOrder request against a catalogue whose price and coupon rule
\* range over the cases of calculateOrderTotals: a subtotal under and over the
\* free-shipping threshold, both discount types, a cap and a minimum set or
\* not, the coupon active or not, the code known or not.
TotalsProcs == {1}
Prices == {500, 2500, 6000}
Rules ==
  {Rule("percentage", v, mx, mn) : v \in {10, 15, 50}, mx \in {0, 100}, mn \in {0, 1000}}
  \cup {Rule("fixed_amount", v, mx, mn) :
          v \in {300, 2000}, mx \in {0, 100}, mn \in {0, 1000}}
TotalsMenu ==
  {CreateOrderReq(<<L1>>, None, None), CreateOrderReq(<<L1>>, "c1", None),
   CreateOrderReq(<<L1, LV>>, "c1", None), CreateOrderReq(<<L1>>, "zz", None),
   CreateOrderReq(<<L2>>, "c1", None)}

InitTotals ==
  \E price \in Prices, active \in BOOLEAN, rule \in Rules :
    Start(TotalsProcs, Rows(MaxStock + 1, MaxStock + 1, price, active, rule))

NextTotals ==
  \E p \in TotalsProcs :
    \/ \E r \in TotalsMenu : CO_Begin(p, r)
    \/ CO_Price(p)
    \/ CO_Coupon(p)
    \/ CO_Number(p)
    \/ CO_InsertOrder(p)
    \/ CO_InsertItem(p)
    \/ CO_UpdStock(p)
    \/ CO_InsMove(p)
    \/ CO_UpdSales(p)
    \/ CO_UpdCoupon(p)
    \/ CO_InsUsage(p)
    \/ CO_InsHist(p)
    \/ CO_Commit(p)
    \/ CO_Rollback(p)

SpecTotals == InitTotals /\ [][NextTotals]_vars

\* -------------------------------------------------------------- SpecOne
\* One createOrder request against a catalogue whose product ranges over the
\* cases of the intake: in stock or not, tracked or not, backorder allowed or
\* not, active or not; the body is valid or not, with an email or not.
OneProcs == {1}
OneMenu ==
  {CreateOrderReq(<<L1>>, None, None), CreateOrderReq(<<LV>>, "c1", None),
   Anonymous(CreateOrderReq(<<L1>>, None, None)),
   CreateOrderReq(<<>>, None, None)}

\* The rows with the inventory flags and the status of every product set.
WithFlags(d, track, backorder, status) ==
  [d EXCEPT !.products =
     [p \in DOMAIN d.products |->
        [d.products[p] EXCEPT !.track_inventory = track,
                              !.allow_backorder = backorder,
                              !.status = status]]]

InitOne ==
  \E k \in 0..MaxStock, track \in BOOLEAN, backorder \in BOOLEAN,
     status \in {"active", "draft"} :
    Start(OneProcs, WithFlags(Catalogue(k, k), track, backorder, status))

NextOne ==
  \E p \in OneProcs :
    \/ \E r \in OneMenu : CO_Begin(p, r)
    \/ CO_Price(p)
    \/ CO_Coupon(p)
    \/ CO_Number(p)
    \/ CO_InsertOrder(p)
    \/ CO_InsertItem(p)
    \/ CO_UpdStock(p)
    \/ CO_InsMove(p)
    \/ CO_UpdSales(p)
    \/ CO_UpdCoupon(p)
    \/ CO_InsUsage(p)
    \/ CO_InsHist(p)
    \/ CO_Commit(p)
    \/ CO_Rollback(p)

SpecOne == InitOne /\ [][NextOne]_vars

\* ------------------------------------------------------------- measures
Ended(p) == pc[p] \in {"done", "failed"}
AllEnded == \A p \in DOMAIN pc : Ended(p)

RECURSIVE SumMoves(_, _)
\* Sum of the quantities of the movements of one stock row.
SumMoves(moves, row) ==
  IF moves = <<>> THEN 0
  ELSE (IF StockRow(Head(moves)) = row THEN Head(moves).quantity ELSE 0)
       + SumMoves(Tail(moves), row)

\* ================================================================ claims

\* C1: N concurrent createOrder requests for one unit of a product with stock
\* k < N end with exactly k committed and N-k failed with a stock error, final
\* stock 0, and movements of the product summing to -k.
C1_ExactlyKCommit ==
  AllEnded =>
    LET k == db0.products["p1"].stock
        N == Cardinality(DOMAIN pc) IN
      /\ Cardinality({p \in DOMAIN pc : pc[p] = "done"}) = k
      /\ Cardinality({p \in DOMAIN pc : pc[p] = "failed" /\ res[p].err = "stock"}) = N - k
      /\ db.products["p1"].stock = 0
      /\ SumMoves(db.moves, <<"product", "p1">>) = -k

\* The stock rows, and the stock of one.
StockRows ==
  {<<"product", p>> : p \in Products} \cup {<<"variant", v>> : v \in Variants}
StockAt(d, row) ==
  IF row[1] = "variant" THEN d.variants[row[2]].stock ELSE d.products[row[2]].stock

\* The order items of one order, and the movements that name it.
ItemsOf(o) == SelectItems(db.items, o)
MovesOf(o, type) ==
  {k \in DOMAIN db.moves :
     db.moves[k].type = type /\ db.moves[k].reference = db.orders[o].number}

\* C2: the stock of a product with allow_backorder = false, and of its
\* variants, is never negative.
C2_StockNeverNegative ==
  \A p \in DOMAIN db.products :
    ~db.products[p].allow_backorder =>
      /\ db.products[p].stock >= 0
      /\ \A v \in DOMAIN db.variants :
           db.variants[v].product = p => db.variants[v].stock >= 0

\* C3: a coupon with a usage limit is never used more often than the limit.
C3_CouponWithinLimit ==
  \A c \in DOMAIN db.coupons :
    db.coupons[c].usage_limit # 0 =>
      db.coupons[c].usage_count <= db.coupons[c].usage_limit

C5_OneOrderPerSession ==
  (\A p \in DOMAIN pc : pc[p] = "done" /\ req[p] = WebhookReq(TRUE, CartEvent)) =>
    /\ Cardinality(DOMAIN db.orders) = 1
    /\ Len(db.items) = Len(db0.cart[CartEvent.cart])
    /\ db.products["p1"].stock = db0.products["p1"].stock - 1
    /\ db.products["p1"].sales = db0.products["p1"].sales + 1

\* C6: the order_id-shaped checkout.session.completed event changes an order
\* only while its payment_status is 'pending'; on an order that is not, it
\* leaves payment_status, status, paid_at and the payment reference as they
\* were.
C6_PaidOnlyIfPending ==
  [][\A p \in DOMAIN pc :
       (pc[p] = "wh_paid" /\ pc'[p] = "done") =>
         LET o == req[p].event.order IN
           (o \in DOMAIN db.orders /\ db.orders[o].payment # "pending") =>
             /\ db'.orders[o].payment = db.orders[o].payment
             /\ db'.orders[o].status = db.orders[o].status
             /\ db'.orders[o].paid_at = db.orders[o].paid_at
             /\ db'.orders[o].intent = db.orders[o].intent]_vars

\* C7: when a cancellation and a payment webhook race on one order, no order
\* is ever 'processing' and 'paid' with its stock returned, and a cancelled
\* order never leaves 'cancelled'.
C7_LaterWriterRejected ==
  /\ [](\A o \in DOMAIN db.orders :
          ~(/\ db.orders[o].status = "processing"
            /\ db.orders[o].payment = "paid"
            /\ MovesOf(o, "return") # {}))
  /\ [][\A o \in DOMAIN db.orders :
          db.orders[o].status = "cancelled" => db'.orders[o].status = "cancelled"]_vars

\* C8: a delivery whose signature verification fails is answered 400 at once:
\* the handler is not dispatched and no row is read or written.
C8_SignatureFirst ==
  [][\A p \in DOMAIN pc :
       (pc[p] = "idle" /\ pc'[p] # "idle" /\ req'[p].op = "webhook" /\ ~req'[p].sig) =>
         /\ pc'[p] = "failed"
         /\ res'[p] = [code |-> 400, err |-> "signature"]
         /\ db' = db /\ tx' = tx /\ loc' = loc /\ nextId' = nextId]_vars

\* A delivery of the cart event with a bad signature was answered while the
\* cart is still full and no order exists.
C8_Witness ==
  \E p \in DOMAIN pc :
    /\ req[p] = WebhookReq(FALSE, CartEvent)
    /\ pc[p] = "failed" /\ res[p].code = 400
    /\ db = db0

\* C9: a verified delivery of a type other than checkout.session.completed is
\* answered 200 {received: true} at once and changes no row.
C9_OtherTypesIgnored ==
  [][\A p \in DOMAIN pc :
       (/\ pc[p] = "idle" /\ pc'[p] # "idle"
        /\ req'[p].op = "webhook" /\ req'[p].sig
        /\ req'[p].event.type # Completed) =>
         /\ pc'[p] = "done"
         /\ res'[p] = [code |-> 200, err |-> None]
         /\ db' = db /\ tx' = tx /\ loc' = loc /\ nextId' = nextId]_vars

\* A verified payment_intent.succeeded naming order 1 was answered 200 while
\* order 1 exists with the payment state it had.
C9_Witness ==
  \E p \in DOMAIN pc :
    /\ req[p].op = "webhook" /\ req[p].sig
    /\ req[p].event.type = "payment_intent.succeeded"
    /\ pc[p] = "done" /\ res[p].code = 200
    /\ 1 \in DOMAIN db.orders

\* C10: once a cancellation of an order made by createOrder has been answered,
\* and no other request touched the stock, every stock row is back at its
\* value before the order and every item of the order has exactly one
\* 'return' movement negating its 'sale'.
C10_CancelRestoresStock ==
  \A p \in DOMAIN pc :
    LET o == req[p].order IN
      (/\ req[p].op = "cancel" /\ Ended(p)
       /\ o \in DOMAIN db.orders /\ db.orders[o].number[1] = "ORD"
       /\ \A q \in DOMAIN pc \ {p} :
            \/ req[q].op \in {None, "createOrder"}
            \/ req[q].op = "webhook" /\ req[q].event.order # 0) =>
        /\ db.products = db0.products
        /\ db.variants = db0.variants
        /\ \A k \in DOMAIN ItemsOf(o) :
             Cardinality({m \in MovesOf(o, "return") :
                            /\ StockRow(db.moves[m]) = StockRow(ItemsOf(o)[k])
                            /\ db.moves[m].quantity = ItemsOf(o)[k].quantity}) = 1

\* No request is inside a handler.
Quiet == \A p \in DOMAIN pc : pc[p] \in {"idle", "done", "failed"}

\* The history rows of one order, oldest first.
HistOf(o) == SelectSeq(db.history, LAMBDA h : h.order = o)

C12_PaidOnlyByWebhook ==
  (\A p \in DOMAIN pc : req[p].op # "webhook") =>
    \A o \in DOMAIN db.orders :
      db.orders[o].status # "processing" /\ db.orders[o].payment # "paid"

\* C13: an order whose status is 'delivered' or 'cancelled' keeps that status
\* in every later step.
C13_TerminalStates ==
  [][\A o \in DOMAIN db.orders :
       db.orders[o].status \in {"delivered", "cancelled"} =>
         db'.orders[o].status = db.orders[o].status]_vars

\* C14: an admin status PATCH that asks for a transition outside
\* pending -> processing -> shipped -> delivered, or -> cancelled from pending
\* or processing, is answered 400 and leaves the order and its history
\* unchanged.
C14_IllegalTransitionRejected ==
  [][\A p \in DOMAIN pc :
       (/\ pc[p] = "pa_update" /\ pc'[p] # "pa_update"
        /\ req[p].order \in DOMAIN db.orders
        /\ db.orders[req[p].order].status # req[p].status
        /\ <<db.orders[req[p].order].status, req[p].status>> \notin
             {<<"pending", "processing">>, <<"processing", "shipped">>,
              <<"shipped", "delivered">>, <<"pending", "cancelled">>,
              <<"processing", "cancelled">>}) =>
         /\ pc'[p] = "failed" /\ res'[p].code = 400
         /\ db' = db]_vars

\* C15: once no request is inside a handler, the history rows of every order
\* retrace its status: the first row starts from no status, each row starts
\* where the one before ended, and the last row ends at the current status.
C15_HistoryPerChange ==
  Quiet =>
    \A o \in DOMAIN db.orders :
      LET h == HistOf(o) IN
        /\ h # <<>>
        /\ h[1].from = None
        /\ h[Len(h)].to = db.orders[o].status
        /\ \A k \in 1..(Len(h) - 1) : h[k + 1].from = h[k].to

\* C16: concurrent createOrder requests that compute the same order number
\* are reconciled: none of them fails on the duplicate number, and committed
\* orders carry distinct numbers.
C16_CollisionRetried ==
  /\ \A p \in DOMAIN pc : res[p].err # "duplicate"
  /\ \A o1, o2 \in DOMAIN db.orders :
       o1 # o2 => db.orders[o1].number # db.orders[o2].number

\* C17: the stored amounts of every order satisfy total_amount = subtotal -
\* discount_amount + shipping_cost + tax_amount, and none of them is negative.
C17_TotalsConsistent ==
  \A o \in DOMAIN db.orders :
    LET a == db.orders[o].amounts IN
      /\ a.total = a.subtotal - a.discount + a.shipping + a.tax
      /\ a.subtotal >= 0 /\ a.discount >= 0 /\ a.shipping >= 0
      /\ a.tax >= 0 /\ a.total >= 0

\* C18: the discount calculateOrderTotals computes for a coupon is at most the
\* subtotal, and at most max_discount_amount when the coupon sets one.
C18_DiscountBounded ==
  \A p \in DOMAIN pc :
    (pc[p] \notin {"idle", "price", "coupon"} /\ loc[p].coupon # None) =>
      LET rule == db.coupons[loc[p].coupon].rule IN
        /\ loc[p].discount <= loc[p].subtotal
        /\ rule.max_discount_amount # 0 =>
             loc[p].discount <= rule.max_discount_amount * Cent

\* C19: a createOrder request whose coupon code matches no active coupon is
\* not answered with an order, and no order records a coupon code with no
\* discount applied.
C19_InvalidCouponRejected ==
  /\ \A p \in DOMAIN pc :
       (req[p].op = "createOrder" /\ pc[p] = "done" /\ req[p].coupon # None) =>
         CouponFound(db0, req[p].coupon)
  /\ \A o \in DOMAIN db.orders :
       db.orders[o].coupon # None => db.orders[o].amounts.discount > 0

\* C20: once every request received has been answered without error, the
\* movements of each product and each variant sum to its current stock minus
\* its initial stock.
C20_MovementsMatchStock ==
  (\A p \in DOMAIN pc : pc[p] \in {"idle", "done"}) =>
    \A row \in StockRows :
      SumMoves(db.moves, row) = StockAt(db, row) - StockAt(db0, row)

\* C21: createOrder is rejected for insufficient stock only for a product
\* with track_inventory true and allow_backorder false.
C21_StockCheckFollowsFlags ==
  \A p \in DOMAIN pc :
    (req[p].op = "createOrder" /\ res[p].err = "stock") =>
      \E k \in DOMAIN req[p].items :
        LET row == db.products[req[p].items[k].product] IN
          row.track_inventory /\ ~row.allow_backorder

\* C22: every order has exactly one of user_id and guest_email set.
C22_OneOwnerIdentity ==
  \A o \in DOMAIN db.orders :
    (db.orders[o].user # None) # (db.orders[o].guest_email # None)

\* C25: the create-order endpoint answers 201 on success, 400 when validation
\* fails, stock is insufficient or the coupon is rejected, and 404 when a
\* product is missing or not active.
C25_CreateOrderCodes ==
  \A p \in DOMAIN pc :
    (req[p].op = "createOrder" /\ pc[p] \in {"done", "failed"}) =>
      /\ pc[p] = "done" => res[p].code = 201
      /\ res[p].err \in {"validation", "stock", "coupon", "minimum"} => res[p].code = 400
      /\ res[p].err = "unavailable" => res[p].code = 404

\* C23: when every webhook delivery received so far was answered with an
\* error, no order, order item, stock decrement or sales_count change
\* persists.
C23_WebhookAtomic ==
  (\A p \in DOMAIN pc : pc[p] \in {"idle", "failed"}) => db = db0

\* C24: once a verified payment-failure event for an order was answered, and
\* no payment-confirmed event was received, the order's payment_status is
\* 'failed'.
C24_PaymentFailed ==
  \A p \in DOMAIN pc :
    (/\ req[p] = WebhookReq(TRUE, FailedEvent) /\ pc[p] = "done"
     /\ FailedEvent.order \in DOMAIN db.orders
     /\ \A q \in DOMAIN pc :
          req[q].op = "webhook" => req[q].event.type # Completed) =>
      db.orders[FailedEvent.order].payment = "failed"

\* C27: a cancellation by a user who is not the order's user_id is answered
\* with an error and writes nothing: status, stock, movements and history
\* stay as they are.
C27_OwnerOnlyCancel ==
  [][\A p \in DOMAIN pc :
       (/\ pc[p] = "ca_read" /\ pc'[p] # "ca_read"
        /\ req[p].order \in DOMAIN db.orders
        /\ db.orders[req[p].order].user # req[p].user) =>
         /\ pc'[p] = "failed" /\ res'[p].code = 404
         /\ db' = db /\ tx' = tx]_vars

\* User u2 was refused the cancellation of the processing order of u1, and
\* nothing was returned to stock.
C27_Witness ==
  \E p \in DOMAIN pc :
    /\ req[p] = CancelReq(1, "u2") /\ pc[p] = "failed" /\ res[p].code = 404
    /\ 1 \in DOMAIN db.orders /\ db.orders[1].user = "u1"
    /\ db.orders[1].status = "processing"
    /\ db.moves = <<>>

\* C28: with only cancellations running on an order, its quantities return
\* to stock once: at most one 'return' movement per order item and at most
\* one 'cancelled' history row, under every interleaving.
C28_CancelOnce ==
  (\A p \in DOMAIN pc :
     /\ req[p].op # "patch"
     /\ req[p].op = "webhook" => req[p].event.order = 0) =>
    \A o \in DOMAIN db.orders :
      /\ Cardinality(MovesOf(o, "return")) <= Len(ItemsOf(o))
      /\ Cardinality({k \in DOMAIN db.history :
                        db.history[k].order = o /\ db.history[k].to = "cancelled"}) <= 1

\* C29: an order whose status is 'cancelled' has a 'return' movement for each
\* of its items.
C29_CancelledMeansReturned ==
  \A o \in DOMAIN db.orders :
    db.orders[o].status = "cancelled" =>
      \A k \in DOMAIN ItemsOf(o) :
        \E m \in MovesOf(o, "return") :
          /\ StockRow(db.moves[m]) = StockRow(ItemsOf(o)[k])
          /\ db.moves[m].quantity = ItemsOf(o)[k].quantity

\* C26: one item priced 25.00 with quantity 2 and an active 10% coupon with
\* no cap and no minimum is ordered at subtotal 50.00, discount 5.00,
\* shipping 5.99, tax 10.20 and total 61.19: a subtotal equal to the
\* threshold of 50.00 still pays the flat shipping fee.
C26_ExampleTotals ==
  \A p \in DOMAIN pc :
    (/\ req[p] = CreateOrderReq(<<L2>>, "c1", None) /\ pc[p] = "done"
     /\ db0.products["p1"].price = 2500
     /\ db0.coupons["c1"].is_active
     /\ db0.coupons["c1"].rule = Rule("percentage", 10, 0, 0)) =>
      \A o \in DOMAIN db.orders :
        db.orders[o].amounts =
          [subtotal |-> 5000, discount |-> 500, shipping |-> 599,
           tax |-> 1020, total |-> 6119]

\* C30: for every coupon, usage_count minus its initial value is the number
\* of coupon_usage rows written for it, whatever was committed or rolled
\* back.
C30_UsageCountMatchesRows ==
  \A c \in DOMAIN db.coupons :
    db.coupons[c].usage_count - db0.coupons[c].usage_count =
      Cardinality({k \in DOMAIN db.usage : db.usage[k].coupon = c})

\* One request committed its order with coupon c1 while another, having
\* incremented the counter in its transaction, is about to roll back.
C30_Witness ==
  \E p, q \in DOMAIN pc :
    /\ p # q
    /\ pc[p] = "done" /\ req[p].op = "createOrder" /\ req[p].coupon = "c1"
    /\ db.coupons["c1"].usage_count = db0.coupons["c1"].usage_count + 1
    /\ pc[q] = "rollback"
    /\ \E k \in DOMAIN tx[q] : tx[q][k].st = "updCoupon"

====
